---- MODULE Spec2Model ----
(***************************************************************************)
(* Model of the exoscale docker-machine driver                             *)
(* (src/drivers/exoscale/exoscale.go).                                     *)
(*                                                                         *)
(* The driver record d, the provider's resources and the position of the   *)
(* lifecycle call in flight are the state.  Every provider request and     *)
(* every local I/O step of Create, Remove and GetState is one action; the  *)
(* outcome of a request (success, the API's ErrorResponse, a transport     *)
(* error) is chosen by the environment.  log is the list of the steps the  *)
(* call in flight (or the last call) has made, ret what the last call      *)
(* returned.                                                               *)
(***************************************************************************)
EXTENDS Integers, Sequences, FiniteSets, TLC

VARIABLES d, securityGroups, affinityGroups, keyPairs, vms, pc, cr, log, ret, calls

vars == <<d, securityGroups, affinityGroups, keyPairs, vms, pc, cr, log, ret, calls>>

----------------------------------------------------------------------------
(* Bounds of the model *)

\* number of lifecycle calls (Create, Remove, GetState) in one behaviour
MaxCalls == 3

\* largest number of elements a name-filtered zone or profile list holds
MaxMatches == 2

\* the longest template list the image specification draws
MaxTemplates == 2

----------------------------------------------------------------------------
(* Values *)

\* a nil *egoscale.UUID, and the UUIDs the provider hands out
NilUUID == [kind |-> "nil", name |-> "", n |-> 0]

UUID(kind, name, n) == [kind |-> kind, name |-> name, n |-> n]

\* a nil error
Nil == "nil"

\* const block, lines 48-60
defaultAffinityGroupType == "host anti-affinity"

\* []byte payloads: what the payload starts from and the number of
\* ssh_authorized_keys blocks appended to it
defaultCloudInit == [base |-> "default", keys |-> 0]

fileCloudInit == [base |-> "file", keys |-> 0]

nilBytes == [base |-> "nil", keys |-> 0]

----------------------------------------------------------------------------
(* Strings are sequences of one-character strings *)

Upper == <<"A","B","C","D","E","F","G","H","I","J","K","L","M",
           "N","O","P","Q","R","S","T","U","V","W","X","Y","Z">>

Lower == <<"a","b","c","d","e","f","g","h","i","j","k","l","m",
           "n","o","p","q","r","s","t","u","v","w","x","y","z">>

Digits == {"0","1","2","3","4","5","6","7","8","9"}

\* strings.ToLower, one character
ToLowerChar(c) ==
    IF \E i \in 1..Len(Upper) : Upper[i] = c
    THEN Lower[CHOOSE i \in 1..Len(Upper) : Upper[i] = c]
    ELSE c

\* strings.ToLower
ToLower(s) == [i \in 1..Len(s) |-> ToLowerChar(s[i])]

\* strings.Replace(s, " ", "-", -1)
ReplaceSpaces(s) == [i \in 1..Len(s) |-> IF s[i] = " " THEN "-" ELSE s[i]]

\* the regexp classes [0-9.] and \w
IsVersionChar(c) == c \in Digits \/ c = "."

IsWordChar(c) ==
    \/ c \in Digits
    \/ c = "_"
    \/ \E i \in 1..Len(Upper) : Upper[i] = c \/ Lower[i] = c

\* \b after position e of s
WordBoundaryAfter(s, e) ==
    LET left == e >= 1 /\ e <= Len(s) /\ IsWordChar(s[e])
        right == e + 1 <= Len(s) /\ IsWordChar(s[e + 1])
    IN left # right

LinuxPrefix == <<"L","i","n","u","x"," ">>

\* the name of length k and the version of length m match at the head of s
SubmatchAt(s, k, m) ==
    LET p == Len(LinuxPrefix) IN
    /\ k >= 1 /\ m >= 1
    /\ p + k + 1 + m <= Len(s)
    /\ s[p + k + 1] = " "
    /\ SubSeq(s, 1, p) = LinuxPrefix
    /\ \A j \in (p + k + 2)..(p + k + 1 + m) : IsVersionChar(s[j])
    /\ WordBoundaryAfter(s, p + k + 1 + m)

\* re.FindStringSubmatch for `^Linux (?P<name>.+?) (?P<version>[0-9.]+)\b`:
\* <<>> when s does not match, else <<match, name, version>>; the name is
\* the shortest that lets the rest match, the version then the longest
FindStringSubmatch(s) ==
    LET p == Len(LinuxPrefix)
        Ks == {k \in 1..(Len(s) - p - 2) :
                  /\ s[p + k + 1] = " "
                  /\ \E m \in 1..(Len(s) - p - k - 1) : SubmatchAt(s, k, m)}
    IN IF Ks = {} THEN <<>>
       ELSE LET k == CHOOSE x \in Ks : \A y \in Ks : x <= y
                Ms == {m \in 1..(Len(s) - p - k - 1) : SubmatchAt(s, k, m)}
                m == CHOOSE x \in Ms : \A y \in Ms : x >= y
            IN << SubSeq(s, 1, p + k + 1 + m),
                  SubSeq(s, p + 1, p + k),
                  SubSeq(s, p + k + 2, p + k + 1 + m) >>

\* lines 484-488: the shorthand <name lowercased, spaces to dashes>-<version>
\* of a template name, <<>> when the name has none
Shortname(tplName) ==
    LET submatch == FindStringSubmatch(tplName) IN
    IF Len(submatch) > 0
    THEN ReplaceSpaces(ToLower(submatch[2])) \o <<"-">> \o submatch[3]
    ELSE <<>>

\* int64 sizes are kept as gib * 2^30 + rem with 0 <= rem < 2^30, so that
\* Size >> 30 is the gib part
Shr30(size) == size.gib

\* line 474: the template passes the "10GiB" filter
KeepTemplate(tpl) == Shr30(tpl.Size) = 10

\* lines 478-493: the template's name or shorthand is the configured image
TemplateMatches(image, tpl) ==
    \/ image = ToLower(tpl.Name)
    \/ /\ Len(FindStringSubmatch(tpl.Name)) > 0
       /\ image = Shortname(tpl.Name)

\* lines 457-460: the Template before the loop, its ID nil
NoTemplate == [ID |-> NilUUID, Name |-> <<>>, Size |-> [gib |-> 0, rem |-> 0], username |-> ""]

\* SelectTemplate, with a later match replacing an earlier one
SelectTemplateLast(image, templates, i) ==
    LET hits == {k \in i..Len(templates) :
                    KeepTemplate(templates[k]) /\ TemplateMatches(image, templates[k])}
    IN IF hits = {} THEN NoTemplate
       ELSE templates[CHOOSE k \in hits : \A h \in hits : h <= k]

\* lines 470-495: the template the loop selects from the list, the zero
\* Template (ID nil) when none is selected
RECURSIVE SelectTemplate(_, _, _)
SelectTemplate(image, templates, i) ==
    IF i > Len(templates)
    THEN NoTemplate
    ELSE IF KeepTemplate(templates[i]) /\ TemplateMatches(image, templates[i])
         THEN templates[i]
         ELSE SelectTemplate(image, templates, i + 1)

----------------------------------------------------------------------------
(* Configurations and provider answers the model draws from *)

\* const block, line 52: "Linux Ubuntu 18.04 LTS 64-bit"
defaultImage == <<"L","i","n","u","x"," ","U","b","u","n","t","u"," ",
                  "1","8",".","0","4"," ","L","T","S"," ","6","4","-","b","i","t">>

debianName == <<"L","i","n","u","x"," ","D","e","b","i","a","n"," ","9"," ",
                "6","4","-","b","i","t">>

ImageChoices == {defaultImage}

TenGiB == [gib |-> 10, rem |-> 0]

tplUbuntu == [ID |-> UUID("template", "ubuntu", 1), Name |-> defaultImage,
              Size |-> TenGiB, username |-> "ubuntu"]

tplDebian == [ID |-> UUID("template", "debian", 2), Name |-> debianName,
              Size |-> TenGiB, username |-> ""]

tplDebian50 == [ID |-> UUID("template", "debian", 3), Name |-> debianName,
                Size |-> [gib |-> 50, rem |-> 0], username |-> "debian"]

redhatName == <<"L","i","n","u","x"," ","R","e","d"," ","H","a","t"," ",
                "7",".","4"," ","6","4","-","b","i","t">>

windowsName == <<"W","i","n","d","o","w","s"," ","1","0">>

\* one byte more than 10 GiB, and one byte less
tplUbuntuPlusOne == [ID |-> UUID("template", "ubuntu", 4), Name |-> defaultImage,
                     Size |-> [gib |-> 10, rem |-> 1], username |-> "ubuntu"]

tplUbuntuMinusOne == [ID |-> UUID("template", "ubuntu", 5), Name |-> defaultImage,
                      Size |-> [gib |-> 9, rem |-> 1073741823], username |-> "ubuntu"]

\* a second 10 GiB template of the default image's name
tplUbuntuAgain == [ID |-> UUID("template", "ubuntu", 6), Name |-> defaultImage,
                   Size |-> TenGiB, username |-> ""]

tplRedHat == [ID |-> UUID("template", "redhat", 7), Name |-> redhatName,
              Size |-> TenGiB, username |-> "cloud-user"]

tplWindows == [ID |-> UUID("template", "windows", 8), Name |-> windowsName,
               Size |-> TenGiB, username |-> ""]

\* the templates the provider may list
TemplateCatalogue == {tplUbuntu, tplDebian, tplDebian50, tplUbuntuPlusOne,
                      tplUbuntuMinusOne, tplUbuntuAgain, tplRedHat, tplWindows}

TemplateOfID(id) == CHOOSE t \in TemplateCatalogue : t.ID = id

\* the ids of a list of templates, in the list's order
TemplateIDs(templates) == [i \in 1..Len(templates) |-> templates[i].ID]

\* --exoscale-image as a shorthand, in lower and in mixed case, as a
\* lowercased full name, and naming no template
imageUbuntuShort == <<"u","b","u","n","t","u","-","1","8",".","0","4">>

imageUbuntuShortMixed == <<"U","b","u","n","t","u","-","1","8",".","0","4">>

imageRedHatShort == <<"r","e","d","-","h","a","t","-","7",".","4">>

imageWindows == <<"w","i","n","d","o","w","s"," ","1","0">>

imageCentos == <<"c","e","n","t","o","s","-","7">>

ImageInputs == {defaultImage, imageUbuntuShort, imageUbuntuShortMixed,
                imageRedHatShort, imageWindows, imageCentos}

\* the featured templates of the zone, as the provider lists them
TemplateLists == { <<>>, <<tplUbuntu>>, <<tplDebian50, tplUbuntu, tplDebian>> }

\* --exoscale-ssh-key: "" asks for a generated key pair
SSHKeyChoices == {"", "~/.ssh/id_rsa", "id_rsa"}

\* const block, line 55
defaultSecurityGroup == "docker-machine"

SecurityGroupNames == {defaultSecurityGroup, "web"}

SecurityGroupChoices == { <<defaultSecurityGroup>>, <<"", "web", defaultSecurityGroup>> }

AffinityGroupNames == {"rack"}

AffinityGroupChoices == { <<>>, <<"", "rack">> }

UserDataFileChoices == {"", "user-data.yml"}

\* the provider-native VM states GetState may be shown, "" when absent
VMStates == {"Starting", "Running", "Stopping", "Stopped", "Destroyed",
             "Expunging", "Migrating", "Error", "Unknown", "Shutdowned",
             "Allocated", ""}

----------------------------------------------------------------------------
(* GetState, lines 287-315 *)

\* StateOf, with a migrating VM reported as running
StateOfMigratingRunning(vmState) ==
    CASE vmState = "Starting"   -> "Starting"
      [] vmState = "Running"    -> "Running"
      [] vmState = "Stopping"   -> "Running"
      [] vmState = "Stopped"    -> "Stopped"
      [] vmState = "Destroyed"  -> "Stopped"
      [] vmState = "Expunging"  -> "Stopped"
      [] vmState = "Migrating"  -> "Running"
      [] vmState = "Error"      -> "Error"
      [] vmState = "Unknown"    -> "Error"
      [] vmState = "Shutdowned" -> "Stopped"
      [] OTHER                  -> "None"

\* StateOf, with an unrecognized state reported as an error state
StateOfDefaultError(vmState) ==
    CASE vmState = "Starting"   -> "Starting"
      [] vmState = "Running"    -> "Running"
      [] vmState = "Stopping"   -> "Running"
      [] vmState = "Stopped"    -> "Stopped"
      [] vmState = "Destroyed"  -> "Stopped"
      [] vmState = "Expunging"  -> "Stopped"
      [] vmState = "Migrating"  -> "Paused"
      [] vmState = "Error"      -> "Error"
      [] vmState = "Unknown"    -> "Error"
      [] vmState = "Shutdowned" -> "Stopped"
      [] OTHER                  -> "Error"

\* the switch on vm.State
StateOf(vmState) ==
    CASE vmState = "Starting"   -> "Starting"
      [] vmState = "Running"    -> "Running"
      [] vmState = "Stopping"   -> "Running"
      [] vmState = "Stopped"    -> "Stopped"
      [] vmState = "Destroyed"  -> "Stopped"
      [] vmState = "Expunging"  -> "Stopped"
      [] vmState = "Migrating"  -> "Paused"
      [] vmState = "Error"      -> "Error"
      [] vmState = "Unknown"    -> "Error"
      [] vmState = "Shutdowned" -> "Stopped"
      [] OTHER                  -> "None"

----------------------------------------------------------------------------
(* createDefaultSecurityGroup, lines 333-404: the ingress rules, in order *)

DefaultRules == <<
    [Description |-> "SSH", Protocol |-> "TCP", StartPort |-> 22, EndPort |-> 22,
     Scope |-> "0.0.0.0/0,::/0"],
    [Description |-> "Ping", Protocol |-> "ICMP", StartPort |-> 0, EndPort |-> 0,
     Scope |-> "0.0.0.0/0"],
    [Description |-> "Ping6", Protocol |-> "ICMPv6", StartPort |-> 0, EndPort |-> 0,
     Scope |-> "::/0"],
    [Description |-> "Docker", Protocol |-> "TCP", StartPort |-> 2376, EndPort |-> 2377,
     Scope |-> "0.0.0.0/0,::/0"],
    [Description |-> "Legacy Standalone Swarm", Protocol |-> "TCP", StartPort |-> 3376,
     EndPort |-> 3377, Scope |-> "0.0.0.0/0,::/0"],
    [Description |-> "Communication among nodes", Protocol |-> "TCP", StartPort |-> 7946,
     EndPort |-> 7946, Scope |-> "group"],
    [Description |-> "Communication among nodes", Protocol |-> "UDP", StartPort |-> 7946,
     EndPort |-> 7946, Scope |-> "group"],
    [Description |-> "Overlay network traffic", Protocol |-> "UDP", StartPort |-> 4789,
     EndPort |-> 4789, Scope |-> "group"] >>

----------------------------------------------------------------------------
(* State *)

\* the local variables of Create before its first statement; of the
\* template, Create uses the ID and the username detail
InitLocals ==
    [cloudInit |-> nilBytes, err |-> Nil, zone |-> NilUUID,
     template |-> [ID |-> NilUUID, username |-> ""], profile |-> NilUUID,
     sgs |-> <<>>, ags |-> <<>>, i |-> 1, r |-> 1]

\* one step of a call: the request or local operation, what it is about,
\* a detail of it, a count, and how it ended
Entry(req, arg, detail, n, out) ==
    [req |-> req, arg |-> arg, detail |-> detail, n |-> n, out |-> out]

\* line 321: the description of the security groups the driver creates
createdDescription == "created by docker-machine"

\* the id the provider gives the resource of a name
SecurityGroupID(group) == UUID("securitygroup", group, 1)

AffinityGroupID(group) == UUID("affinitygroup", group, 1)

\* line 568
KeyPairName(machineName) == "docker-machine-" \o machineName

\* no call has returned since the call in flight started
NoReturn == [op |-> "none", err |-> Nil, val |-> ""]

\* NewDriver (lines 138-149) followed by SetConfigFromFlags (lines 216-240);
\* the provider may already hold groups of the configured names, not
\* described as created by the driver
Init ==
    /\ \E image \in ImageChoices, sshKey \in SSHKeyChoices,
          sg \in SecurityGroupChoices, ag \in AffinityGroupChoices,
          udf \in UserDataFileChoices :
          d = [ APIKey |-> "key", APISecretKey |-> "secret",
                InstanceProfile |-> "Small", DiskSize |-> 50, Image |-> image,
                SecurityGroups |-> sg, AffinityGroups |-> ag,
                AvailabilityZone |-> "CH-DK-2", SSHKey |-> sshKey, KeyPair |-> "",
                Password |-> "", UserDataFile |-> udf, UserData |-> defaultCloudInit,
                ID |-> NilUUID, IPAddress |-> "", SSHUser |-> "", MachineName |-> "m" ]
    /\ \E S \in SUBSET ({d.SecurityGroups[i] : i \in DOMAIN d.SecurityGroups} \ {""}) :
          securityGroups = [g \in S |-> [Description |-> ""]]
    /\ \E S \in SUBSET ({d.AffinityGroups[i] : i \in DOMAIN d.AffinityGroups} \ {""}) :
          affinityGroups = [g \in S |-> [Type |-> defaultAffinityGroupType]]
    /\ keyPairs = {}
    /\ vms = {}
    /\ pc = "idle"
    /\ cr = InitLocals
    /\ log = <<>>
    /\ ret = NoReturn
    /\ calls = 0

\* the call in flight returns e
Return(op, e) ==
    /\ pc' = "idle"
    /\ ret' = [op |-> op, err |-> e, val |-> ""]

Logged(e) == log' = Append(log, e)

Provider == <<securityGroups, affinityGroups, keyPairs, vms>>

\* the id put in front of the ids collected so far
PrependID(ids, id) == <<id>> \o ids

\* lines 541 and 563: sgs = append(sgs, *sg.ID), ags = append(ags, *ag.ID)
AppendID(ids, id) == Append(ids, id)

----------------------------------------------------------------------------
(* Create, lines 433-674 *)

\* getCloudInit, lines 738-745: the record's UserData after the call and the
\* error returned with it; readOK is whether the user-data file can be read
getCloudInit(dd, readOK) ==
    IF dd.UserDataFile # ""
    THEN [UserData |-> IF readOK THEN fileCloudInit ELSE nilBytes,
          err |-> IF readOK THEN Nil ELSE "ReadFile user-data failed"]
    ELSE [UserData |-> dd.UserData, err |-> Nil]

\* lines 434-437: a call of Create starts by loading the cloud-init payload
Create ==
    /\ pc = "idle"
    /\ calls < MaxCalls
    /\ calls' = calls + 1
    /\ \E readOK \in BOOLEAN :
          LET got == getCloudInit(d, readOK) IN
          /\ d.UserDataFile = "" => readOK
          /\ d' = [d EXCEPT !.UserData = got.UserData]
          /\ cr' = [InitLocals EXCEPT !.cloudInit = got.UserData, !.err = got.err]
          /\ log' = << Entry("getCloudInit", d.UserDataFile, "", got.UserData.keys,
                             IF got.err = Nil THEN "ok" ELSE "err") >>
          /\ IF got.err # Nil
             THEN Return("Create", got.err)
             ELSE pc' = "zone" /\ ret' = NoReturn
    /\ UNCHANGED Provider

\* ZoneResolves, taking the first zone of several
ZoneResolvesFirstOfMany(n) == n >= 1

\* lines 449-452: the zone list resolves
ZoneResolves(n) == n = 1

\* lines 450-451: the error returned when it does not
ZoneError(n) == "Availability zone doesn't exist"

\* lines 442-454
CreateListZones ==
    /\ pc = "zone"
    /\ \E out \in {"ok", "err"}, n \in 0..MaxMatches :
          /\ out = "err" => n = 0
          /\ Logged(Entry("ListZones", d.AvailabilityZone, "", n, out))
          /\ IF out = "err"
             THEN /\ cr' = [cr EXCEPT !.err = "ListZones failed"]
                  /\ Return("Create", "ListZones failed")
             ELSE IF ~ZoneResolves(n)
                  THEN /\ cr' = [cr EXCEPT !.err = Nil]
                       /\ Return("Create", ZoneError(n))
                  ELSE /\ cr' = [cr EXCEPT !.err = Nil,
                                           !.zone = UUID("zone", d.AvailabilityZone, 1)]
                       /\ pc' = "image"
                       /\ UNCHANGED ret
    /\ UNCHANGED <<d, Provider, calls>>

\* lines 456-504
ListTemplatesFrom(lists) ==
    /\ pc = "image"
    /\ \E out \in {"ok", "err"}, templates \in lists :
          /\ out = "err" => templates = <<>>
          /\ Logged(Entry("ListTemplates", TemplateIDs(templates),
                          SelectTemplate(ToLower(d.Image), templates, 1).ID.name,
                          Len(templates), out))
          /\ IF out = "err"
             THEN /\ cr' = [cr EXCEPT !.err = "ListTemplates failed"]
                  /\ Return("Create", "ListTemplates failed")
                  /\ UNCHANGED d
             ELSE LET template == SelectTemplate(ToLower(d.Image), templates, 1) IN
                  /\ cr' = [cr EXCEPT !.err = Nil,
                                      !.template = [ID |-> template.ID,
                                                    username |-> template.username]]
                  /\ IF template.ID = NilUUID
                     THEN /\ Return("Create", "Unable to find image")
                          /\ UNCHANGED d
                     ELSE /\ d' = [d EXCEPT !.SSHUser = IF template.username # ""
                                                         THEN template.username ELSE @]
                          /\ pc' = "profile"
                          /\ UNCHANGED ret
    /\ UNCHANGED <<Provider, calls>>

\* lines 456-503, the provider listing one of TemplateLists
CreateListTemplates == ListTemplatesFrom(TemplateLists)

\* lines 513-516: the profile list resolves
ProfileResolves(n) == n = 1

\* lines 514-515: the error returned when it does not
ProfileError(n) == "Unable to find the profile"

\* lines 506-518
CreateListProfiles ==
    /\ pc = "profile"
    /\ \E out \in {"ok", "err"}, n \in 0..MaxMatches :
          /\ out = "err" => n = 0
          /\ Logged(Entry("ListServiceOfferings", d.InstanceProfile, "", n, out))
          /\ IF out = "err"
             THEN /\ cr' = [cr EXCEPT !.err = "ListServiceOfferings failed"]
                  /\ Return("Create", "ListServiceOfferings failed")
             ELSE IF ~ProfileResolves(n)
                  THEN /\ cr' = [cr EXCEPT !.err = Nil]
                       /\ Return("Create", ProfileError(n))
                  ELSE /\ cr' = [cr EXCEPT !.err = Nil,
                                           !.profile = UUID("profile", d.InstanceProfile, 1)]
                       /\ pc' = "sg"
                       /\ UNCHANGED ret
    /\ UNCHANGED <<d, Provider, calls>>

\* client.Get of a group by name: the provider answers with the resource
\* when it holds one of that name and with an *egoscale.ErrorResponse when
\* it holds none; any request may instead fail before an answer ("other").
\* The provider refuses to create a group or key pair of a name it holds.
GetOutcomes(exists) == IF exists THEN {"ok", "other"} ELSE {"ErrorResponse", "other"}

\* SecurityGroupLookup, creating the group whatever the lookup answers
SecurityGroupLookupAlwaysCreates(out) ==
    CASE out = "other" -> "return"
      [] OTHER         -> "create"

\* SecurityGroupLookup, creating the group on any lookup error
SecurityGroupLookupCreatesOnAnyError(out) ==
    CASE out = "ok" -> "use"
      [] OTHER      -> "create"

\* lines 528-538: what Create does with the outcome of the security-group
\* lookup: use the group found, create the group, or return the error
SecurityGroupLookup(out) ==
    CASE out = "ok"            -> "use"
      [] out = "ErrorResponse" -> "create"
      [] OTHER                 -> "return"

\* lines 520-542, one turn of the loop up to the lookup
CreateSecurityGroupGet ==
    /\ pc = "sg"
    /\ IF cr.i > Len(d.SecurityGroups)
       THEN /\ pc' = "ag"
            /\ cr' = [cr EXCEPT !.i = 1]
            /\ UNCHANGED <<log, ret>>
       ELSE LET group == d.SecurityGroups[cr.i] IN
            IF group = ""
            THEN /\ cr' = [cr EXCEPT !.i = @ + 1]
                 /\ UNCHANGED <<pc, log, ret>>
            ELSE \E out \in GetOutcomes(group \in DOMAIN securityGroups) :
                    /\ Logged(Entry("GetSecurityGroup", group, "",
                                    IF group \in DOMAIN securityGroups THEN 1 ELSE 0, out))
                    /\ CASE SecurityGroupLookup(out) = "use" ->
                              /\ cr' = [cr EXCEPT !.sgs = AppendID(@, SecurityGroupID(group)),
                                                  !.i = @ + 1]
                              /\ UNCHANGED <<pc, ret>>
                         [] SecurityGroupLookup(out) = "create" ->
                              /\ pc' = "sgCreate"
                              /\ UNCHANGED <<cr, ret>>
                         [] OTHER ->
                              /\ Return("Create", "Get SecurityGroup failed")
                              /\ UNCHANGED cr
    /\ UNCHANGED <<d, Provider, calls>>

\* lines 319-326: the CreateSecurityGroup request of createDefaultSecurityGroup
CreateSecurityGroupCreate ==
    /\ pc = "sgCreate"
    /\ LET group == d.SecurityGroups[cr.i] IN
       \E ok \in BOOLEAN :
          /\ ok => group \notin DOMAIN securityGroups
          /\ Logged(Entry("CreateSecurityGroup", group, createdDescription, 0,
                          IF ok THEN "ok" ELSE "err"))
          /\ IF ok
             THEN /\ securityGroups' =
                        [g \in DOMAIN securityGroups \cup {group} |->
                            IF g = group THEN [Description |-> createdDescription]
                            ELSE securityGroups[g]]
                  /\ cr' = [cr EXCEPT !.r = 1]
                  /\ pc' = "sgRules"
                  /\ UNCHANGED ret
             ELSE /\ Return("Create", "CreateSecurityGroup failed")
                  /\ UNCHANGED <<securityGroups, cr>>
    /\ UNCHANGED <<d, affinityGroups, keyPairs, vms, calls>>

\* CreateSecurityGroupAuthorize, going on to the next rule when a request
\* fails
CreateSecurityGroupAuthorizeContinues ==
    /\ pc = "sgRules"
    /\ LET group == d.SecurityGroups[cr.i] IN
       \E ok \in BOOLEAN :
          /\ Logged(Entry("AuthorizeSecurityGroupIngress", group,
                          DefaultRules[cr.r].Description, cr.r,
                          IF ok THEN "ok" ELSE "err"))
          /\ IF cr.r = Len(DefaultRules)
             THEN /\ cr' = [cr EXCEPT !.sgs = AppendID(@, SecurityGroupID(group)),
                                      !.i = @ + 1, !.r = 1]
                  /\ pc' = "sg"
             ELSE /\ cr' = [cr EXCEPT !.r = @ + 1]
                  /\ UNCHANGED pc
          /\ UNCHANGED ret
    /\ UNCHANGED <<d, Provider, calls>>

\* lines 406-413 and 537-541: one AuthorizeSecurityGroupIngress request of
\* createDefaultSecurityGroup; after the last one the new group's id is used
CreateSecurityGroupAuthorize ==
    /\ pc = "sgRules"
    /\ LET group == d.SecurityGroups[cr.i] IN
       \E ok \in BOOLEAN :
          /\ Logged(Entry("AuthorizeSecurityGroupIngress", group,
                          DefaultRules[cr.r].Description, cr.r,
                          IF ok THEN "ok" ELSE "err"))
          /\ IF ok
             THEN /\ IF cr.r = Len(DefaultRules)
                     THEN /\ cr' = [cr EXCEPT !.sgs = AppendID(@, SecurityGroupID(group)),
                                              !.i = @ + 1, !.r = 1]
                          /\ pc' = "sg"
                     ELSE /\ cr' = [cr EXCEPT !.r = @ + 1]
                          /\ UNCHANGED pc
                  /\ UNCHANGED ret
             ELSE /\ Return("Create", "AuthorizeSecurityGroupIngress failed")
                  /\ UNCHANGED cr
    /\ UNCHANGED <<d, Provider, calls>>

\* lines 551-554: what Create returns when the affinity-group lookup fails
\* with an error that is no *egoscale.ErrorResponse: the function's err
\* variable, not errGet
AffinityGroupLookupError(errGet, err) == err

\* lines 544-564, one turn of the loop up to the lookup
CreateAffinityGroupGet ==
    /\ pc = "ag"
    /\ IF cr.i > Len(d.AffinityGroups)
       THEN /\ pc' = "ssh"
            /\ cr' = [cr EXCEPT !.i = 1]
            /\ UNCHANGED <<log, ret>>
       ELSE LET group == d.AffinityGroups[cr.i] IN
            IF group = ""
            THEN /\ cr' = [cr EXCEPT !.i = @ + 1]
                 /\ UNCHANGED <<pc, log, ret>>
            ELSE \E out \in GetOutcomes(group \in DOMAIN affinityGroups) :
                    /\ Logged(Entry("GetAffinityGroup", group, "",
                                    IF group \in DOMAIN affinityGroups THEN 1 ELSE 0, out))
                    /\ CASE out = "ok" ->
                              /\ cr' = [cr EXCEPT !.ags = AppendID(@, AffinityGroupID(group)),
                                                  !.i = @ + 1]
                              /\ UNCHANGED <<pc, ret>>
                         [] out = "ErrorResponse" ->
                              /\ pc' = "agCreate"
                              /\ UNCHANGED <<cr, ret>>
                         [] OTHER ->
                              /\ Return("Create",
                                        AffinityGroupLookupError("Get AffinityGroup failed", cr.err))
                              /\ UNCHANGED cr
    /\ UNCHANGED <<d, Provider, calls>>

\* lines 416-430 and 556-563: createDefaultAffinityGroup and the use of its id
CreateAffinityGroupCreate ==
    /\ pc = "agCreate"
    /\ LET group == d.AffinityGroups[cr.i] IN
       \E ok \in BOOLEAN :
          /\ ok => group \notin DOMAIN affinityGroups
          /\ Logged(Entry("CreateAffinityGroup", group, defaultAffinityGroupType, 0,
                          IF ok THEN "ok" ELSE "err"))
          /\ IF ok
             THEN /\ affinityGroups' = [g \in DOMAIN affinityGroups \cup {group} |->
                                           IF g = group
                                           THEN [Type |-> defaultAffinityGroupType]
                                           ELSE affinityGroups[g]]
                  /\ cr' = [cr EXCEPT !.ags = AppendID(@, AffinityGroupID(group)),
                                      !.i = @ + 1]
                  /\ pc' = "ag"
                  /\ UNCHANGED ret
             ELSE /\ Return("Create", "CreateAffinityGroup failed")
                  /\ UNCHANGED <<affinityGroups, cr>>
    /\ UNCHANGED <<d, securityGroups, keyPairs, vms, calls>>

\* line 588: strings.HasPrefix(sshKey, "~/"), over SSHKeyChoices
HasHomePrefix(sshKey) == sshKey = "~/.ssh/id_rsa"

\* lines 566-576: the generate path asks the provider for a key pair; the
\* provider refuses a name it already holds
CreateSSHKeyPair ==
    /\ pc = "ssh"
    /\ d.SSHKey = ""
    /\ LET keyPairName == KeyPairName(d.MachineName) IN
       \E ok \in BOOLEAN :
          /\ ok => keyPairName \notin keyPairs
          /\ Logged(Entry("CreateSSHKeyPair", keyPairName, "", 0,
                          IF ok THEN "ok" ELSE "err"))
          /\ IF ok
             THEN /\ keyPairs' = keyPairs \cup {keyPairName}
                  /\ pc' = "storeKey"
                  /\ UNCHANGED ret
             ELSE /\ Return("Create", "SSH Key pair creation failed")
                  /\ UNCHANGED keyPairs
    /\ UNCHANGED <<d, securityGroups, affinityGroups, vms, cr, calls>>

\* lines 577-583: the private key is stored locally, then the key-pair name
\* is recorded
CreateStorePrivateKey ==
    /\ pc = "storeKey"
    /\ \E io \in {"ok", "errMkdirAll", "errWriteFile"} :
          /\ log' = log \o
                (<< Entry("MkdirAll", "", "", 0,
                          IF io = "errMkdirAll" THEN "err" ELSE "ok") >>
                 \o IF io = "errMkdirAll" THEN <<>>
                    ELSE << Entry("WriteFile", "", "", 0,
                                  IF io = "errWriteFile" THEN "err" ELSE "ok") >>)
          /\ CASE io = "errMkdirAll" ->
                    /\ Return("Create", "Cannot create the folder to store the SSH private key")
                    /\ UNCHANGED d
               [] io = "errWriteFile" ->
                    /\ Return("Create", "SSH private key could not be written")
                    /\ UNCHANGED d
               [] OTHER ->
                    /\ d' = [d EXCEPT !.KeyPair = KeyPairName(d.MachineName)]
                    /\ pc' = "deploy"
                    /\ UNCHANGED ret
    /\ UNCHANGED <<Provider, cr, calls>>

\* the payload with no key appended to it
WithoutAuthorizedKey(cloudInit) == cloudInit

\* lines 604-607: the payload joined with an ssh_authorized_keys block
\* holding the public key
AppendAuthorizedKey(cloudInit) == [cloudInit EXCEPT !.keys = @ + 1]

\* lines 584-616: the import path; the public key is appended to the
\* cloud-init payload once it is read
CreateImportKey ==
    /\ pc = "ssh"
    /\ d.SSHKey # ""
    /\ \E io \in {"ok", "errAbs", "errReadFile", "errCopyFile", "errChmod"} :
          /\ io = "errAbs" => ~HasHomePrefix(d.SSHKey)
          /\ log' = log \o
                ( (IF HasHomePrefix(d.SSHKey) THEN <<>>
                   ELSE << Entry("Abs", d.SSHKey, "", 0,
                                 IF io = "errAbs" THEN "err" ELSE "ok") >>)
                  \o (IF io = "errAbs" THEN <<>>
                      ELSE << Entry("ReadFile", d.SSHKey, ".pub", 0,
                                    IF io = "errReadFile" THEN "err" ELSE "ok") >>)
                  \o (IF io \in {"errAbs", "errReadFile"} THEN <<>>
                      ELSE << Entry("CopyFile", d.SSHKey, "", 0,
                                    IF io = "errCopyFile" THEN "err" ELSE "ok") >>)
                  \o (IF io \in {"errAbs", "errReadFile", "errCopyFile"} THEN <<>>
                      ELSE << Entry("Chmod", "", "", 0,
                                    IF io = "errChmod" THEN "err" ELSE "ok") >>) )
          /\ cr' = IF io \in {"errAbs", "errReadFile"} THEN cr
                   ELSE [cr EXCEPT !.cloudInit = AppendAuthorizedKey(@)]
          /\ CASE io = "errAbs"      -> Return("Create", "Abs failed")
               [] io = "errReadFile" -> Return("Create", "Cannot read SSH public key")
               [] io = "errCopyFile" -> Return("Create", "Unable to copy SSH file")
               [] io = "errChmod"    ->
                    Return("Create", "Unable to set permissions on the SSH file")
               [] OTHER              -> pc' = "deploy" /\ UNCHANGED ret
    /\ UNCHANGED <<d, Provider, calls>>

\* lines 618-656: the payload is recorded and the deploy request submitted;
\* the VM's id, address and password are recorded when it succeeds
CreateDeploy ==
    /\ pc = "deploy"
    /\ \E ok \in BOOLEAN, ip \in {"", "203.0.113.7"}, passwordEnabled \in BOOLEAN :
          LET vm == UUID("vm", d.MachineName, calls) IN
          /\ ~ok => (ip = "" /\ ~passwordEnabled)
          /\ Logged(Entry("DeployVirtualMachine", d.MachineName, d.KeyPair,
                          cr.cloudInit.keys, IF ok THEN "ok" ELSE "err"))
          /\ IF ok
             THEN /\ vms' = vms \cup {vm}
                  /\ d' = [d EXCEPT !.UserData = cr.cloudInit,
                                    !.IPAddress = IF ip # "" THEN ip ELSE @,
                                    !.ID = vm,
                                    !.Password = IF passwordEnabled THEN "password" ELSE @]
                  /\ cr' = [cr EXCEPT !.err = Nil]
                  /\ IF d.KeyPair # ""
                     THEN pc' = "waitSSH" /\ UNCHANGED ret
                     ELSE Return("Create", Nil)
             ELSE /\ d' = [d EXCEPT !.UserData = cr.cloudInit]
                  /\ cr' = [cr EXCEPT !.err = "DeployVirtualMachine failed"]
                  /\ Return("Create", "DeployVirtualMachine failed")
                  /\ UNCHANGED vms
    /\ UNCHANGED <<securityGroups, affinityGroups, keyPairs, calls>>

\* CreateWaitForSSH, deleting the key pair when the wait times out
CreateWaitForSSHCleansUp ==
    /\ pc = "waitSSH"
    /\ \E ok \in BOOLEAN :
          /\ Logged(Entry("WaitForSSH", d.IPAddress, "", 0, IF ok THEN "ok" ELSE "err"))
          /\ IF ok
             THEN pc' = "deleteKey" /\ UNCHANGED <<ret, d, keyPairs>>
             ELSE /\ Return("Create", "WaitForSSH timed out")
                  /\ keyPairs' = keyPairs \ {d.KeyPair}
                  /\ d' = [d EXCEPT !.KeyPair = ""]
    /\ UNCHANGED <<securityGroups, affinityGroups, vms, cr, calls>>

\* lines 659-662
CreateWaitForSSH ==
    /\ pc = "waitSSH"
    /\ \E ok \in BOOLEAN :
          /\ Logged(Entry("WaitForSSH", d.IPAddress, "", 0, IF ok THEN "ok" ELSE "err"))
          /\ IF ok
             THEN pc' = "deleteKey" /\ UNCHANGED ret
             ELSE Return("Create", "WaitForSSH timed out")
    /\ UNCHANGED <<d, Provider, cr, calls>>

\* CreateDeleteKeyPair, leaving the key-pair name in the record
CreateDeleteKeyPairKeepsName ==
    /\ pc = "deleteKey"
    /\ \E ok \in BOOLEAN :
          /\ Logged(Entry("DeleteSSHKeyPair", d.KeyPair, "", 0, IF ok THEN "ok" ELSE "err"))
          /\ IF ok
             THEN /\ keyPairs' = keyPairs \ {d.KeyPair}
                  /\ Return("Create", Nil)
             ELSE /\ Return("Create", "DeleteSSHKeyPair failed")
                  /\ UNCHANGED keyPairs
    /\ UNCHANGED <<d, securityGroups, affinityGroups, vms, cr, calls>>

\* lines 664-673
CreateDeleteKeyPair ==
    /\ pc = "deleteKey"
    /\ \E ok \in BOOLEAN :
          /\ Logged(Entry("DeleteSSHKeyPair", d.KeyPair, "", 0, IF ok THEN "ok" ELSE "err"))
          /\ IF ok
             THEN /\ keyPairs' = keyPairs \ {d.KeyPair}
                  /\ d' = [d EXCEPT !.KeyPair = ""]
                  /\ Return("Create", Nil)
             ELSE /\ Return("Create", "DeleteSSHKeyPair failed")
                  /\ UNCHANGED <<d, keyPairs>>
    /\ UNCHANGED <<securityGroups, affinityGroups, vms, cr, calls>>

----------------------------------------------------------------------------
(* Remove, lines 712-734 *)

\* Remove, going on to the VM when the key pair could not be deleted
RemoveIgnoringKeyPairError ==
    /\ pc = "idle"
    /\ calls < MaxCalls
    /\ calls' = calls + 1
    /\ cr' = InitLocals
    /\ IF d.KeyPair # ""
       THEN \E ok \in BOOLEAN :
               /\ log' = << Entry("DeleteSSHKeyPair", d.KeyPair, "", 0,
                                  IF ok THEN "ok" ELSE "err") >>
               /\ keyPairs' = IF ok THEN keyPairs \ {d.KeyPair} ELSE keyPairs
               /\ pc' = "removeVM"
               /\ ret' = NoReturn
       ELSE /\ log' = <<>>
            /\ pc' = "removeVM"
            /\ ret' = NoReturn
            /\ UNCHANGED keyPairs
    /\ UNCHANGED <<d, securityGroups, affinityGroups, vms>>

\* lines 713-721: the key pair, when one is tracked, is deleted first
Remove ==
    /\ pc = "idle"
    /\ calls < MaxCalls
    /\ calls' = calls + 1
    /\ cr' = InitLocals
    /\ IF d.KeyPair # ""
       THEN \E ok \in BOOLEAN :
               /\ log' = << Entry("DeleteSSHKeyPair", d.KeyPair, "", 0,
                                  IF ok THEN "ok" ELSE "err") >>
               /\ IF ok
                  THEN /\ keyPairs' = keyPairs \ {d.KeyPair}
                       /\ pc' = "removeVM"
                       /\ ret' = NoReturn
                  ELSE /\ Return("Remove", "DeleteSSHKeyPair failed")
                       /\ UNCHANGED keyPairs
       ELSE /\ log' = <<>>
            /\ pc' = "removeVM"
            /\ ret' = NoReturn
            /\ UNCHANGED keyPairs
    /\ UNCHANGED <<d, securityGroups, affinityGroups, vms>>

\* RemoveVM, asking for the deletion whether or not the record holds an id
RemoveVMAlways ==
    /\ pc = "removeVM"
    /\ \E ok \in BOOLEAN :
          /\ Logged(Entry("DeleteVirtualMachine", d.ID.kind, "", d.ID.n,
                          IF ok THEN "ok" ELSE "err"))
          /\ IF ok
             THEN /\ vms' = vms \ {d.ID}
                  /\ Return("Remove", Nil)
             ELSE /\ Return("Remove", "DeleteVirtualMachine failed")
                  /\ UNCHANGED vms
    /\ UNCHANGED <<d, securityGroups, affinityGroups, keyPairs, cr, calls>>

\* lines 723-733: then the VM, when the record holds an id
RemoveVM ==
    /\ pc = "removeVM"
    /\ IF d.ID # NilUUID
       THEN \E ok \in BOOLEAN :
               /\ Logged(Entry("DeleteVirtualMachine", d.ID.kind, "", d.ID.n,
                               IF ok THEN "ok" ELSE "err"))
               /\ IF ok
                  THEN /\ vms' = vms \ {d.ID}
                       /\ Return("Remove", Nil)
                  ELSE /\ Return("Remove", "DeleteVirtualMachine failed")
                       /\ UNCHANGED vms
       ELSE /\ Return("Remove", Nil)
            /\ UNCHANGED <<log, vms>>
    /\ UNCHANGED <<d, securityGroups, affinityGroups, keyPairs, cr, calls>>

----------------------------------------------------------------------------
(* GetState, lines 287-315 *)

\* the VM is fetched by id and its state mapped; the lookup may fail
GetState ==
    /\ pc = "idle"
    /\ calls < MaxCalls
    /\ calls' = calls + 1
    /\ cr' = InitLocals
    /\ \E ok \in BOOLEAN, vmState \in VMStates :
          /\ ~ok => vmState = ""
          /\ log' = << Entry("GetVirtualMachine", vmState, "", d.ID.n,
                             IF ok THEN "ok" ELSE "err") >>
          /\ ret' = IF ok
                    THEN [op |-> "GetState", err |-> Nil, val |-> StateOf(vmState)]
                    ELSE [op |-> "GetState", err |-> "Get VirtualMachine failed",
                          val |-> "Error"]
    /\ UNCHANGED <<d, Provider, pc>>

----------------------------------------------------------------------------
(* GetURL, lines 254-267 *)

\* MustBeRunning, letting a starting host through
MustBeRunningOrStarting(st, err) ==
    IF err # Nil THEN err
    ELSE IF st \notin {"Running", "Starting"} THEN "Host is not running"
    ELSE Nil

\* line 255, drivers.MustBeRunning: the error of the state query, else an
\* error unless the state is Running
MustBeRunning(st, err) ==
    IF err # Nil THEN err
    ELSE IF st # "Running" THEN "Host is not running"
    ELSE Nil

\* line 259, BaseDriver.GetIP: the recorded address, an error when none is
GetIP(dd) ==
    [ip |-> dd.IPAddress,
     err |-> IF dd.IPAddress = "" THEN "IP address is not set" ELSE Nil]

\* the addresses of the model that are IPv6 literals
IsIPv6Literal(host) == host \in {}

\* line 264, net.JoinHostPort: the host goes into brackets when it holds a
\* colon
JoinHostPort(host, port) ==
    IF IsIPv6Literal(host)
    THEN "[" \o host \o "]:" \o port
    ELSE host \o ":" \o port

GetURL ==
    /\ pc = "idle"
    /\ calls < MaxCalls
    /\ calls' = calls + 1
    /\ cr' = InitLocals
    /\ \E ok \in BOOLEAN, vmState \in VMStates :
          LET st     == IF ok THEN StateOf(vmState) ELSE "Error"
              errGet == IF ok THEN Nil ELSE "Get VirtualMachine failed"
              errRun == MustBeRunning(st, errGet)
              got    == GetIP(d)
          IN
          /\ ~ok => vmState = ""
          /\ log' = << Entry("GetVirtualMachine", vmState, "", d.ID.n,
                             IF ok THEN "ok" ELSE "err") >>
          /\ ret' = IF errRun # Nil
                    THEN [op |-> "GetURL", err |-> errRun, val |-> ""]
                    ELSE IF got.err # Nil
                    THEN [op |-> "GetURL", err |-> got.err, val |-> ""]
                    ELSE [op |-> "GetURL", err |-> Nil,
                          val |-> "tcp://" \o JoinHostPort(got.ip, "2376")]
    /\ UNCHANGED <<d, Provider, pc>>

----------------------------------------------------------------------------

Next ==
    \/ Create
    \/ CreateListZones
    \/ CreateListTemplates
    \/ CreateListProfiles
    \/ CreateSecurityGroupGet
    \/ CreateSecurityGroupCreate
    \/ CreateSecurityGroupAuthorize
    \/ CreateAffinityGroupGet
    \/ CreateAffinityGroupCreate
    \/ CreateSSHKeyPair
    \/ CreateStorePrivateKey
    \/ CreateImportKey
    \/ CreateDeploy
    \/ CreateWaitForSSH
    \/ CreateDeleteKeyPair
    \/ Remove
    \/ RemoveVM
    \/ GetState
    \/ GetURL

Spec == Init /\ [][Next]_vars

----------------------------------------------------------------------------
(* UnmarshalJSON, lines 190-212, on its own: a driver as NewDriver makes it
   is loaded from persisted representations *)

\* lines 193-194: the zero Driver the representation is decoded into
ZeroDriver ==
    [ APIKey |-> "", APISecretKey |-> "", InstanceProfile |-> "", DiskSize |-> 0,
      Image |-> <<>>, SecurityGroups |-> <<>>, AffinityGroups |-> <<>>,
      AvailabilityZone |-> "", SSHKey |-> "", KeyPair |-> "", Password |-> "",
      UserDataFile |-> "", UserData |-> nilBytes, ID |-> NilUUID,
      IPAddress |-> "", SSHUser |-> "", MachineName |-> "" ]

\* line 195, json.Unmarshal: a representation is a JSON object, a function
\* from the names of the fields it holds to their values; a field it lacks
\* keeps its zero value
Unmarshal(data) ==
    [f \in DOMAIN ZeroDriver |-> IF f \in DOMAIN data THEN data[f] ELSE ZeroDriver[f]]

\* WithOverrides, taking both credentials from the options whether they
\* are set there or not
WithOverridesAlways(target, values) ==
    [target EXCEPT
        !.APIKey = IF "exoscale-api-key" \in DOMAIN values
                   THEN values["exoscale-api-key"] ELSE "",
        !.APISecretKey = IF "exoscale-api-secret-key" \in DOMAIN values
                         THEN values["exoscale-api-secret-key"] ELSE ""]

\* lines 201-209: the credentials found in driverOpts.Values replace the
\* decoded ones
WithOverrides(target, values) ==
    [target EXCEPT
        !.APIKey = IF "exoscale-api-key" \in DOMAIN values
                   THEN values["exoscale-api-key"] ELSE @,
        !.APISecretKey = IF "exoscale-api-secret-key" \in DOMAIN values
                         THEN values["exoscale-api-secret-key"] ELSE @]

\* the record of a machine Create has deployed, as it is saved
SavedDriver(keyPair, sshKey) ==
    [ APIKey |-> "key", APISecretKey |-> "secret",
      InstanceProfile |-> "Small", DiskSize |-> 50, Image |-> defaultImage,
      SecurityGroups |-> <<defaultSecurityGroup>>, AffinityGroups |-> <<>>,
      AvailabilityZone |-> "CH-DK-2", SSHKey |-> sshKey, KeyPair |-> keyPair,
      Password |-> "", UserDataFile |-> "", UserData |-> defaultCloudInit,
      ID |-> UUID("vm", "m", 1), IPAddress |-> "203.0.113.7",
      SSHUser |-> "ubuntu", MachineName |-> "m" ]

\* the fields a representation may lack
OptionalFields == {"APIKey", "APISecretKey", "KeyPair", "ID"}

\* the representations UnmarshalJSON is given
PersistedChoices ==
    { [f \in DOMAIN saved \ lacking |-> saved[f]] :
        saved \in { SavedDriver("", "id_rsa"),
                    SavedDriver(KeyPairName("m"), "") },
        lacking \in SUBSET OptionalFields }

\* line 200, rpcdriver.GetDriverOpts: the values of the flags set by the
\* environment or the command line
DriverOptsChoices ==
    { [k \in K |-> IF k = "exoscale-api-key" THEN "flag-key" ELSE "flag-secret"] :
        K \in SUBSET {"exoscale-api-key", "exoscale-api-secret-key"} }

UnmarshalJSON ==
    /\ pc = "idle"
    /\ calls < MaxCalls
    /\ calls' = calls + 1
    /\ cr' = InitLocals
    /\ \E data \in PersistedChoices, values \in DriverOptsChoices,
          valid \in BOOLEAN :
          \* of the data that do not decode, only those lacking every
          \* optional field are drawn, with no flag set
          /\ ~valid => ( DOMAIN data = DOMAIN ZeroDriver \ OptionalFields
                         /\ DOMAIN values = {} )
          /\ log' = << Entry("UnmarshalJSON", data, values, 0,
                             IF valid THEN "ok" ELSE "err") >>
          /\ IF valid
             THEN /\ d' = WithOverrides(Unmarshal(data), values)
                  /\ ret' = [op |-> "UnmarshalJSON", err |-> Nil, val |-> ""]
             ELSE /\ ret' = [op |-> "UnmarshalJSON", val |-> "",
                             err |-> "error unmarshalling driver config from JSON"]
                  /\ UNCHANGED d
    /\ UNCHANGED <<Provider, pc>>

\* NewDriver, lines 138-149
InitLoad ==
    /\ d = [ ZeroDriver EXCEPT !.InstanceProfile = "Small", !.DiskSize = 50,
                               !.Image = defaultImage,
                               !.AvailabilityZone = "CH-DK-2",
                               !.MachineName = "m" ]
    /\ securityGroups = [g \in {} |-> [Description |-> ""]]
    /\ affinityGroups = [g \in {} |-> [Type |-> defaultAffinityGroupType]]
    /\ keyPairs = {}
    /\ vms = {}
    /\ pc = "idle"
    /\ cr = InitLocals
    /\ log = <<>>
    /\ ret = NoReturn
    /\ calls = 0

NextLoad == UnmarshalJSON

SpecLoad == InitLoad /\ [][NextLoad]_vars

----------------------------------------------------------------------------
(* Image resolution on its own: Create up to the profile lookup, over every
   configured image of ImageInputs and every list of at most MaxTemplates
   templates of the catalogue *)

ImageTemplateLists ==
    UNION { [1..n -> TemplateCatalogue] : n \in 0..MaxTemplates }

InitImage ==
    /\ \E image \in ImageInputs :
          d = [ APIKey |-> "key", APISecretKey |-> "secret",
                InstanceProfile |-> "Small", DiskSize |-> 50, Image |-> image,
                SecurityGroups |-> <<defaultSecurityGroup>>, AffinityGroups |-> <<>>,
                AvailabilityZone |-> "CH-DK-2", SSHKey |-> "", KeyPair |-> "",
                Password |-> "", UserDataFile |-> "", UserData |-> defaultCloudInit,
                ID |-> NilUUID, IPAddress |-> "", SSHUser |-> "", MachineName |-> "m" ]
    /\ securityGroups = [g \in {} |-> [Description |-> ""]]
    /\ affinityGroups = [g \in {} |-> [Type |-> defaultAffinityGroupType]]
    /\ keyPairs = {}
    /\ vms = {}
    /\ pc = "idle"
    /\ cr = InitLocals
    /\ log = <<>>
    /\ ret = NoReturn
    /\ calls = 0

ImageListTemplates == ListTemplatesFrom(ImageTemplateLists)

NextImage ==
    \/ Create
    \/ CreateListZones
    \/ ImageListTemplates
    \/ CreateListProfiles

SpecImage == InitImage /\ [][NextImage]_vars

----------------------------------------------------------------------------
(* Reading the steps of a call *)

\* log holds the steps of a Create call, in flight or returned
CreateLog == log # <<>> /\ log[1].req = "getCloudInit"

\* log holds the steps of a Remove call, in flight or returned
RemoveLog == pc = "removeVM" \/ (pc = "idle" /\ ret.op = "Remove")

CreateReturned == pc = "idle" /\ ret.op = "Create"

RemoveReturned == pc = "idle" /\ ret.op = "Remove"

\* the step at position i is the request req and ended out
StepIs(i, req, out) == log[i].req = req /\ log[i].out = out

\* some step before position j is the request req about arg and succeeded
DoneBefore(j, req, arg) ==
    \E i \in 1..(j - 1) : StepIs(i, req, "ok") /\ log[i].arg = arg

\* the place of a step in the order of Create
StepRank(req) ==
    CASE req = "getCloudInit" -> 1
      [] req = "ListZones" -> 2
      [] req = "ListTemplates" -> 3
      [] req = "ListServiceOfferings" -> 4
      [] req \in {"GetSecurityGroup", "CreateSecurityGroup",
                  "AuthorizeSecurityGroupIngress"} -> 5
      [] req \in {"GetAffinityGroup", "CreateAffinityGroup"} -> 6
      [] req \in {"CreateSSHKeyPair", "MkdirAll", "WriteFile",
                  "Abs", "ReadFile", "CopyFile", "Chmod"} -> 7
      [] req = "DeployVirtualMachine" -> 8
      [] req = "WaitForSSH" -> 9
      [] req = "DeleteSSHKeyPair" -> 10
      [] OTHER -> 0

\* the step did not do what Create needs of it: the request or the local
\* operation failed, a zone or profile list does not hold exactly one
\* element, no template matches
StepFailed(e) ==
    \/ e.out \in {"err", "other"}
    \/ e.req \in {"ListZones", "ListServiceOfferings"} /\ e.n # 1
    \/ e.req = "ListTemplates" /\ e.detail = ""

----------------------------------------------------------------------------
(* C1 *)

C1_Order ==
    \A i, j \in DOMAIN log : i < j => StepRank(log[i].req) <= StepRank(log[j].req)

C1_AbortOnFailure ==
    \A i \in DOMAIN log :
        StepFailed(log[i]) => /\ i = Len(log)
                              /\ CreateReturned
                              /\ ret.err # Nil

C1_DeployAfterResolution ==
    \A j \in DOMAIN log :
        log[j].req = "DeployVirtualMachine" =>
            /\ \E i \in 1..(j - 1) : StepIs(i, "ListZones", "ok") /\ log[i].n = 1
            /\ \E i \in 1..(j - 1) : StepIs(i, "ListTemplates", "ok") /\ log[i].detail # ""
            /\ \E i \in 1..(j - 1) : StepIs(i, "ListServiceOfferings", "ok") /\ log[i].n = 1
            /\ \A k \in DOMAIN d.SecurityGroups :
                  LET g == d.SecurityGroups[k] IN
                  g # "" => \/ DoneBefore(j, "GetSecurityGroup", g)
                            \/ \E i \in 1..(j - 1) :
                                  /\ StepIs(i, "AuthorizeSecurityGroupIngress", "ok")
                                  /\ log[i].arg = g
                                  /\ log[i].n = Len(DefaultRules)
            /\ \A k \in DOMAIN d.AffinityGroups :
                  LET g == d.AffinityGroups[k] IN
                  g # "" => \/ DoneBefore(j, "GetAffinityGroup", g)
                            \/ DoneBefore(j, "CreateAffinityGroup", g)
            /\ IF d.SSHKey = ""
               THEN /\ DoneBefore(j, "CreateSSHKeyPair", KeyPairName(d.MachineName))
                    /\ DoneBefore(j, "WriteFile", "")
               ELSE DoneBefore(j, "Chmod", "")

C1_NoRollback ==
    /\ \A i \in DOMAIN log :
          log[i].req = "DeleteSSHKeyPair" =>
              \E k \in 1..(i - 1) : StepIs(k, "WaitForSSH", "ok")
    /\ \A i \in DOMAIN log :
          /\ StepIs(i, "CreateSecurityGroup", "ok") => log[i].arg \in DOMAIN securityGroups
          /\ StepIs(i, "CreateAffinityGroup", "ok") => log[i].arg \in DOMAIN affinityGroups
          /\ ( StepIs(i, "CreateSSHKeyPair", "ok")
               /\ ~\E k \in DOMAIN log : StepIs(k, "DeleteSSHKeyPair", "ok") )
             => log[i].arg \in keyPairs

\* C1: Create runs its steps in the fixed order; the failure of any step
\* makes Create return an error at once, with no later request issued; the
\* deploy request is submitted only after zone, image, profile, every
\* non-empty security and affinity group and the SSH credential step have
\* succeeded; nothing the call created is deleted as rollback.
C1_CreateOrderAndAbort ==
    CreateLog => /\ C1_Order
                 /\ C1_AbortOnFailure
                 /\ C1_DeployAfterResolution
                 /\ C1_NoRollback

\* the parts of C1 that do not say what Create returns
C1_Rest ==
    CreateLog => /\ C1_Order
                 /\ C1_DeployAfterResolution
                 /\ C1_NoRollback
                 /\ \A i \in DOMAIN log :
                       StepFailed(log[i]) => i = Len(log) /\ CreateReturned

----------------------------------------------------------------------------
(* C2 *)

\* C2: when Remove is called on a record that tracks a key-pair name and a
\* VM id and the key-pair deletion fails, Remove returns that error and
\* never issues the VM deletion request.
C2_RemoveStopsAtKeyPairError ==
    ( RemoveLog /\ d.KeyPair # "" /\ d.ID # NilUUID
      /\ log # <<>> /\ StepIs(1, "DeleteSSHKeyPair", "err") )
    => /\ RemoveReturned
       /\ ret.err = "DeleteSSHKeyPair failed"
       /\ \A i \in DOMAIN log : log[i].req # "DeleteVirtualMachine"

C2_Witness ==
    /\ RemoveReturned
    /\ d.KeyPair # "" /\ d.ID # NilUUID
    /\ log # <<>> /\ StepIs(1, "DeleteSSHKeyPair", "err")
    /\ ret.err # Nil

----------------------------------------------------------------------------
(* C3 *)

\* C3: in every Remove call a key-pair deletion request is issued exactly
\* when the record tracks a key-pair name, a VM deletion request only when
\* the record holds a VM id, the key-pair request first when both are
\* issued, and no other request at all.
C3_RemoveRequests ==
    RemoveLog =>
        /\ (\E i \in DOMAIN log : log[i].req = "DeleteSSHKeyPair") <=> d.KeyPair # ""
        /\ (\E i \in DOMAIN log : log[i].req = "DeleteVirtualMachine") => d.ID # NilUUID
        /\ \A i, j \in DOMAIN log :
              ( log[i].req = "DeleteSSHKeyPair" /\ log[j].req = "DeleteVirtualMachine" )
              => i < j
        /\ \A i \in DOMAIN log :
              /\ log[i].req \in {"DeleteSSHKeyPair", "DeleteVirtualMachine"}
              /\ log[i].req = "DeleteSSHKeyPair" => log[i].arg = d.KeyPair
              /\ log[i].req = "DeleteVirtualMachine" => log[i].n = d.ID.n
        /\ Len(log) <= 2

C3_Witness ==
    /\ RemoveReturned
    /\ ret.err = Nil
    /\ Len(log) = 2
    /\ StepIs(1, "DeleteSSHKeyPair", "ok")
    /\ StepIs(2, "DeleteVirtualMachine", "ok")

----------------------------------------------------------------------------
(* C4 *)

\* the call in log took the generate path
GeneratePath == CreateLog /\ \E i \in DOMAIN log : log[i].req = "CreateSSHKeyPair"

\* C4: on the generate path the key-pair deletion request is issued only
\* after the deploy request and then the SSH wait succeeded; when such a
\* Create returns success the provider no longer holds the key pair and the
\* record's key-pair name is empty.
C4_KeyPairCleanup ==
    GeneratePath =>
        /\ \A j \in DOMAIN log :
              log[j].req = "DeleteSSHKeyPair" =>
                  \E i, k \in 1..(j - 1) :
                      /\ i < k
                      /\ StepIs(i, "DeployVirtualMachine", "ok")
                      /\ StepIs(k, "WaitForSSH", "ok")
        /\ ( CreateReturned /\ ret.err = Nil ) =>
              /\ \E j \in DOMAIN log : StepIs(j, "DeleteSSHKeyPair", "ok")
              /\ KeyPairName(d.MachineName) \notin keyPairs
              /\ d.KeyPair = ""

C4_Witness ==
    /\ GeneratePath
    /\ CreateReturned
    /\ ret.err = Nil
    /\ StepIs(Len(log), "DeleteSSHKeyPair", "ok")

----------------------------------------------------------------------------
(* C5 *)

\* C5: when the SSH wait of a generate-path Create times out, Create
\* returns an error, has issued no key-pair deletion request, the provider
\* still holds the key pair, and the record holds the key-pair name and the
\* id of the VM the call deployed.
C5_SSHTimeoutLeavesKeyPair ==
    ( GeneratePath /\ \E i \in DOMAIN log : StepIs(i, "WaitForSSH", "err") )
    => /\ CreateReturned
       /\ ret.err = "WaitForSSH timed out"
       /\ \A i \in DOMAIN log : log[i].req # "DeleteSSHKeyPair"
       /\ KeyPairName(d.MachineName) \in keyPairs
       /\ d.KeyPair = KeyPairName(d.MachineName)
       /\ d.ID = UUID("vm", d.MachineName, calls)
       /\ d.ID \in vms

C5_Witness ==
    /\ GeneratePath
    /\ CreateReturned
    /\ StepIs(Len(log), "WaitForSSH", "err")
    /\ d.KeyPair # ""
    /\ d.ID # NilUUID

----------------------------------------------------------------------------
(* C6 *)

\* the step at position i is a zone or profile list the provider answered
ListAnswered(i) ==
    log[i].req \in {"ListZones", "ListServiceOfferings"} /\ log[i].out = "ok"

\* Create went on after the step at position i
WentOn(i) == i < Len(log) \/ pc # "idle"

\* Create returned at the step at position i
ReturnedAt(i) == i = Len(log) /\ CreateReturned

\* the error Create returns when the list at position i is empty
EmptyListError(i) ==
    IF log[i].req = "ListZones" THEN ZoneError(0) ELSE ProfileError(0)

\* C6 as stated: zone and profile resolution succeed only on exactly one
\* match, fail with a NotFound error on none and with a distinct Ambiguous
\* error on several.
C6_DistinctAmbiguousError ==
    CreateLog =>
        \A i \in DOMAIN log :
            ListAnswered(i) =>
                CASE log[i].n = 1 -> WentOn(i)
                  [] log[i].n = 0 -> ReturnedAt(i) /\ ret.err # Nil
                  [] OTHER        -> /\ ReturnedAt(i)
                                     /\ ret.err # Nil
                                     /\ ret.err # EmptyListError(i)

\* C6, amended: zone and profile resolution succeed only on exactly one
\* match; on none and on several alike Create returns the one error of the
\* resource ("Availability zone ... doesn't exist", "Unable to find the ...
\* profile") and never goes on with one of several matches.
C6_ExactlyOneMatch ==
    CreateLog =>
        \A i \in DOMAIN log :
            ListAnswered(i) =>
                IF log[i].n = 1
                THEN WentOn(i)
                ELSE /\ ReturnedAt(i)
                     /\ ret.err = IF log[i].req = "ListZones"
                                  THEN "Availability zone doesn't exist"
                                  ELSE "Unable to find the profile"

C6_Witness ==
    /\ CreateReturned
    /\ ListAnswered(Len(log))
    /\ log[Len(log)].req = "ListZones"
    /\ log[Len(log)].n > 1
    /\ ret.err = "Availability zone doesn't exist"

----------------------------------------------------------------------------
(* C7 *)

\* C7: for a configured security-group name the provider already holds,
\* Create issues no create-security-group and no authorize-ingress request
\* and, when the lookup succeeds, uses the id of the group found.
C7_ExistingGroupReused ==
    CreateLog =>
        \A i \in DOMAIN log :
            ( log[i].req = "GetSecurityGroup" /\ log[i].n = 1 ) =>
                /\ \A j \in DOMAIN log :
                      ( j > i /\ log[j].req \in {"CreateSecurityGroup",
                                                  "AuthorizeSecurityGroupIngress"} )
                      => log[j].arg # log[i].arg
                /\ log[i].out = "ok" =>
                      \E k \in DOMAIN cr.sgs : cr.sgs[k] = SecurityGroupID(log[i].arg)

\* a later Create finds the group an earlier Create created
C7_Witness ==
    /\ CreateReturned
    /\ calls >= 2
    /\ ret.err = Nil
    /\ \E i \in DOMAIN log :
          /\ StepIs(i, "GetSecurityGroup", "ok")
          /\ log[i].n = 1
          /\ securityGroups[log[i].arg].Description = createdDescription
          /\ \E k \in DOMAIN cr.sgs : cr.sgs[k] = SecurityGroupID(log[i].arg)
    /\ \A j \in DOMAIN log : log[j].req # "CreateSecurityGroup"
    /\ \E j \in DOMAIN log : StepIs(j, "DeployVirtualMachine", "ok")

----------------------------------------------------------------------------
(* C8 *)

\* C8: a security group is created only after its lookup failed with the
\* provider's not-found class of error; a lookup that fails with any other
\* error makes Create return that error, with no create-security-group and
\* no deploy request.
C8_CreateOnlyOnNotFound ==
    CreateLog =>
        /\ \A j \in DOMAIN log :
              log[j].req = "CreateSecurityGroup" =>
                  /\ j > 1
                  /\ StepIs(j - 1, "GetSecurityGroup", "ErrorResponse")
                  /\ log[j - 1].arg = log[j].arg
        /\ \A i \in DOMAIN log :
              StepIs(i, "GetSecurityGroup", "other") =>
                  /\ ReturnedAt(i)
                  /\ ret.err = "Get SecurityGroup failed"
                  /\ \A j \in DOMAIN log : log[j].req # "DeployVirtualMachine"

C8_Witness ==
    /\ CreateReturned
    /\ StepIs(Len(log), "GetSecurityGroup", "other")
    /\ ret.err = "Get SecurityGroup failed"

----------------------------------------------------------------------------
(* C9 *)

\* C9: an affinity-group lookup that fails with an error outside the
\* not-found class makes Create return that error (not nil), with no
\* affinity group created and no deploy request; a lookup that fails with
\* not-found is followed by the creation of a "host anti-affinity" group.
C9_AffinityLookupErrorReturned ==
    CreateLog =>
        /\ \A i \in DOMAIN log :
              StepIs(i, "GetAffinityGroup", "other") =>
                  /\ ReturnedAt(i)
                  /\ ret.err # Nil
                  /\ ret.err = "Get AffinityGroup failed"
        /\ \A j \in DOMAIN log :
              log[j].req = "CreateAffinityGroup" =>
                  /\ j > 1
                  /\ StepIs(j - 1, "GetAffinityGroup", "ErrorResponse")
                  /\ log[j - 1].arg = log[j].arg
                  /\ log[j].detail = "host anti-affinity"

\* the part of C9 that holds: Create stops at the failed lookup, and groups
\* are created only on not-found, with the fixed type
C9_Rest ==
    CreateLog =>
        /\ \A i \in DOMAIN log : StepIs(i, "GetAffinityGroup", "other") => ReturnedAt(i)
        /\ \A j \in DOMAIN log :
              log[j].req = "CreateAffinityGroup" =>
                  /\ j > 1
                  /\ StepIs(j - 1, "GetAffinityGroup", "ErrorResponse")
                  /\ log[j - 1].arg = log[j].arg
                  /\ log[j].detail = "host anti-affinity"

----------------------------------------------------------------------------
(* C10 *)

\* the provider states of the table of C10
TableStates == {"Starting", "Running", "Stopping", "Stopped", "Destroyed",
                "Expunging", "Shutdowned", "Migrating", "Error"}

\* the table of C10
TableState(vmState) ==
    CASE vmState = "Starting" -> "Starting"
      [] vmState \in {"Running", "Stopping"} -> "Running"
      [] vmState \in {"Stopped", "Destroyed", "Expunging", "Shutdowned"} -> "Stopped"
      [] vmState = "Migrating" -> "Paused"
      [] vmState = "Error" -> "Error"

GetStateReturned == pc = "idle" /\ ret.op = "GetState"

\* C10: when the VM lookup succeeds, GetState maps Starting to Starting,
\* Running and Stopping to Running, Stopped, Destroyed, Expunging and
\* Shutdowned to Stopped, Migrating to Paused, Error to Error, and returns
\* no error.
C10_GetStateTable ==
    ( GetStateReturned /\ StepIs(1, "GetVirtualMachine", "ok")
      /\ log[1].arg \in TableStates )
    => /\ ret.err = Nil
       /\ ret.val = TableState(log[1].arg)
       /\ log[1].arg = "Migrating" => ret.val \notin {"Running", "Stopped"}

C10_Witness ==
    /\ GetStateReturned
    /\ StepIs(1, "GetVirtualMachine", "ok")
    /\ log[1].arg = "Migrating"
    /\ ret.val = "Paused"
    /\ ret.err = Nil

----------------------------------------------------------------------------
(* C11 *)

\* C11 as stated: every provider state outside the table of C10, the empty
\* string included, gives None and no error when the VM lookup succeeds;
\* GetState returns an error only when the lookup fails, with state Error.
C11_OutsideTableIsNone ==
    GetStateReturned =>
        /\ ( StepIs(1, "GetVirtualMachine", "ok") /\ log[1].arg \notin TableStates )
           => ( ret.val = "None" /\ ret.err = Nil )
        /\ ret.err # Nil <=> StepIs(1, "GetVirtualMachine", "err")
        /\ ret.err # Nil => ret.val = "Error"

\* C11, amended: the provider state "Unknown" gives Error and no error;
\* every other provider state outside the table of C10, the empty string
\* included, gives None and no error; GetState returns an error only when
\* the VM lookup fails, with state Error.
C11_TotalMapping ==
    GetStateReturned =>
        /\ ( StepIs(1, "GetVirtualMachine", "ok")
             /\ log[1].arg \notin TableStates \cup {"Unknown"} )
           => ( ret.val = "None" /\ ret.err = Nil )
        /\ ( StepIs(1, "GetVirtualMachine", "ok") /\ log[1].arg = "Unknown" )
           => ( ret.val = "Error" /\ ret.err = Nil )
        /\ ret.val \in {"Starting", "Running", "Stopped", "Paused", "Error", "None"}
        /\ ret.err # Nil <=> StepIs(1, "GetVirtualMachine", "err")
        /\ ret.err # Nil => ret.val = "Error"

C11_Witness ==
    /\ GetStateReturned
    /\ StepIs(1, "GetVirtualMachine", "ok")
    /\ log[1].arg = ""
    /\ ret.val = "None"
    /\ ret.err = Nil

----------------------------------------------------------------------------
(* C12 *)

\* the template the ListTemplates step of the call selected
ImageAnswered == CreateLog /\ Len(log) >= 3 /\ StepIs(3, "ListTemplates", "ok")

Selected == TemplateOfID(cr.template.ID)

\* C12: whatever its name, a template whose size is not exactly 10 GiB is
\* never the one image resolution selects.
C12_OnlyExactlyTenGiB ==
    ( ImageAnswered /\ cr.template.ID # NilUUID ) =>
        ( Selected.Size.gib = 10 /\ Selected.Size.rem = 0 )

----------------------------------------------------------------------------
(* C13 *)

\* the pairs <<configured image, template name>> that match, by the
\* lowercased full name or by the shorthand <name>-<version>
Matching ==
    { <<defaultImage, defaultImage>>, <<imageUbuntuShort, defaultImage>>,
      <<imageUbuntuShortMixed, defaultImage>>, <<imageRedHatShort, redhatName>>,
      <<imageWindows, windowsName>> }

\* the places of the provider's list whose template passes the filter of
\* line 474 and matches the configured image
Passing ==
    { i \in 1..Len(log[3].arg) :
        /\ TemplateOfID(log[3].arg[i]).Size.gib = 10
        /\ <<d.Image, TemplateOfID(log[3].arg[i]).Name>> \in Matching }

\* C13: image resolution selects the first template, in the order of the
\* provider's list, that passes the 10 GiB filter and matches the configured
\* image; it succeeds exactly when there is one, and otherwise Create
\* returns "Unable to find image" with no profile lookup and no creation
\* request.
C13_FirstMatchingTemplate ==
    ImageAnswered =>
        IF Passing # {}
        THEN /\ \E i \in Passing :
                   /\ \A j \in Passing : i <= j
                   /\ cr.template.ID = log[3].arg[i]
             /\ pc = "idle" => Len(log) > 3
        ELSE /\ Len(log) = 3
             /\ CreateReturned
             /\ ret.err = "Unable to find image"
             /\ cr.template.ID = NilUUID
             /\ keyPairs = {} /\ vms = {}
             /\ DOMAIN securityGroups = {} /\ DOMAIN affinityGroups = {}

\* a shorthand in mixed case selects the second template of the list, the
\* first being too large
C13_Witness ==
    /\ ImageAnswered
    /\ d.Image = imageUbuntuShortMixed
    /\ log[3].arg = <<tplDebian50.ID, tplUbuntu.ID>>
    /\ cr.template.ID = tplUbuntu.ID
    /\ pc = "profile"

----------------------------------------------------------------------------
(* C14 *)

ImportPath == CreateLog /\ d.SSHKey # ""

\* C14: with a private-key path configured, Create sends no request to
\* create a key pair, the deploy request carries an empty key-pair name and
\* a payload to which an ssh_authorized_keys block with the public key read
\* from <path>.pub was appended, no key-pair name is recorded, and Create
\* neither waits for SSH nor asks for a key pair to be deleted.
C14_ImportedKeyPath ==
    ImportPath =>
        /\ d.KeyPair = ""
        /\ \A i \in 1..Len(log) :
              /\ log[i].req \notin {"CreateSSHKeyPair", "MkdirAll", "WriteFile",
                                    "WaitForSSH", "DeleteSSHKeyPair"}
              /\ log[i].req = "DeployVirtualMachine" =>
                    /\ log[i].detail = ""
                    /\ log[i].n = log[1].n + 1
                    /\ log[i].n >= 1
                    /\ d.UserData = cr.cloudInit
                    /\ \E j \in 1..(i - 1) :
                          /\ StepIs(j, "ReadFile", "ok")
                          /\ log[j].arg = d.SSHKey
                          /\ log[j].detail = ".pub"
                    /\ i = Len(log) /\ CreateReturned
        /\ keyPairs = {}

C14_Witness ==
    /\ ImportPath
    /\ CreateReturned
    /\ ret.err = Nil
    /\ \E i \in 1..Len(log) : StepIs(i, "DeployVirtualMachine", "ok")
    /\ d.ID # NilUUID
    /\ d.KeyPair = ""

----------------------------------------------------------------------------
(* C16 *)

GetURLReturned == pc = "idle" /\ ret.op = "GetURL"

\* the state query of the call reported Running
ReportedRunning ==
    StepIs(1, "GetVirtualMachine", "ok") /\ log[1].arg \in {"Running", "Stopping"}

\* C16: GetURL returns an error whenever the state query does not report
\* Running, the failing state query included, and returns tcp://<ip>:2376
\* when the host is Running and has a recorded address.
C16_URLOnlyWhenRunning ==
    GetURLReturned =>
        /\ ~ReportedRunning => ( ret.err # Nil /\ ret.val = "" )
        /\ StepIs(1, "GetVirtualMachine", "err") =>
              ret.err = "Get VirtualMachine failed"
        /\ ( ReportedRunning /\ d.IPAddress # "" ) =>
              ( ret.err = Nil /\ ret.val = "tcp://" \o d.IPAddress \o ":2376" )

C16_Witness ==
    /\ GetURLReturned
    /\ ReportedRunning
    /\ d.IPAddress = "203.0.113.7"
    /\ ret.val = "tcp://203.0.113.7:2376"
    /\ ret.err = Nil

----------------------------------------------------------------------------
(* C15 *)

Loaded == pc = "idle" /\ ret.op = "UnmarshalJSON" /\ log[1].out = "ok"

Credentials == {"APIKey", "APISecretKey"}

\* the flag that overrides a credential
FlagOf(f) == IF f = "APIKey" THEN "exoscale-api-key" ELSE "exoscale-api-secret-key"

\* C15: after UnmarshalJSON every field has the value of the persisted
\* representation (its zero value when the representation lacks it), except
\* that the API key and the API secret key each have the override's value
\* when an override for that field is present; with no override the
\* persisted credential is kept, and the overrides decide no other field.
C15_LoadRestoresWithCredentialOverrides ==
    Loaded =>
        LET data   == log[1].arg
            values == log[1].detail
            persisted(f) == IF f \in DOMAIN data THEN data[f] ELSE ZeroDriver[f]
        IN /\ ret.err = Nil
           /\ \A f \in DOMAIN d \ Credentials : d[f] = persisted(f)
           /\ \A f \in Credentials :
                 d[f] = IF FlagOf(f) \in DOMAIN values
                        THEN values[FlagOf(f)]
                        ELSE persisted(f)

\* a representation without the API key is loaded with an override for it
\* and none for the secret
C15_Witness ==
    /\ Loaded
    /\ "APIKey" \notin DOMAIN log[1].arg
    /\ "APISecretKey" \in DOMAIN log[1].arg
    /\ DOMAIN log[1].detail = {"exoscale-api-key"}
    /\ d.APIKey = "flag-key"
    /\ d.APISecretKey = "secret"
    /\ d.ID = UUID("vm", "m", 1)

----------------------------------------------------------------------------
(* C17 *)

NonEmpty(name) == name # ""

\* the ids of the groups of the non-empty names of a list, in its order
SecurityGroupIDsOf(names) ==
    LET kept == SelectSeq(names, NonEmpty)
    IN [k \in 1..Len(kept) |-> UUID("securitygroup", kept[k], 1)]

AffinityGroupIDsOf(names) ==
    LET kept == SelectSeq(names, NonEmpty)
    IN [k \in 1..Len(kept) |-> UUID("affinitygroup", kept[k], 1)]

Deploying ==
    CreateLog /\ \E i \in 1..Len(log) : log[i].req = "DeployVirtualMachine"

----------------------------------------------------------------------------
(* C18 *)

\* the descriptions of the default rules, in the order of lines 328-404
RuleDescriptions ==
    << "SSH", "Ping", "Ping6", "Docker", "Legacy Standalone Swarm",
       "Communication among nodes", "Communication among nodes",
       "Overlay network traffic" >>

\* entry i asks for rule k of the group
AuthorizesRule(i, group, k) ==
    /\ log[i].req = "AuthorizeSecurityGroupIngress"
    /\ log[i].arg = group
    /\ log[i].n = k
    /\ log[i].detail = RuleDescriptions[k]

\* C18: after creating a security group Create asks for its 8 default
\* ingress rules, one request a rule, in a fixed order; the first request
\* that fails is the last request of the call, Create returns an error, and
\* the group just created stays at the provider.
C18_DefaultRulesInOrder ==
    CreateLog =>
        /\ \A j \in 1..Len(log) :
              StepIs(j, "CreateSecurityGroup", "ok") =>
                 /\ log[j].arg \in DOMAIN securityGroups
                 /\ \A k \in 1..8 :
                       /\ ( j + k <= Len(log) ) => AuthorizesRule(j + k, log[j].arg, k)
                       /\ ( j + k <= Len(log) /\ log[j + k].out = "err" ) =>
                             /\ j + k = Len(log)
                             /\ CreateReturned
                             /\ ret.err # Nil
                       /\ ( j + k - 1 = Len(log) /\ log[Len(log)].out = "ok" ) =>
                             ~CreateReturned
                 /\ ( j + 9 <= Len(log) ) =>
                       log[j + 9].req # "AuthorizeSecurityGroupIngress"
        /\ \A i \in 1..Len(log) :
              log[i].req = "AuthorizeSecurityGroupIngress" =>
                 /\ log[i].n \in 1..8
                 /\ i > log[i].n
                 /\ StepIs(i - log[i].n, "CreateSecurityGroup", "ok")
                 /\ log[i - log[i].n].arg = log[i].arg

\* the fourth rule of a new group is refused
C18_Witness ==
    /\ CreateReturned
    /\ Len(log) > 4
    /\ StepIs(Len(log) - 4, "CreateSecurityGroup", "ok")
    /\ StepIs(Len(log), "AuthorizeSecurityGroupIngress", "err")
    /\ log[Len(log)].n = 4
    /\ log[Len(log)].arg \in DOMAIN securityGroups
    /\ ret.err # Nil

----------------------------------------------------------------------------
(* C19 *)

\* C19: when Create returns nil, a deploy request of the call succeeded and
\* the record holds the id of the VM it deployed.
C19_SuccessMeansDeployed ==
    ( CreateReturned /\ ret.err = Nil ) =>
        /\ \E i \in 1..Len(log) : StepIs(i, "DeployVirtualMachine", "ok")
        /\ d.ID = UUID("vm", d.MachineName, calls)
        /\ d.ID \in vms

----------------------------------------------------------------------------
(* C20 *)

\* C20: between calls, every key pair the provider holds (each was created
\* by Create and not deleted since) is the one the record names, so that
\* Remove asks for its deletion.
C20_NoUntrackedKeyPair ==
    pc = "idle" => \A keyPairName \in keyPairs : d.KeyPair = keyPairName

----------------------------------------------------------------------------
(* C21 *)

\* C21: with no user-data file configured, the payload an import-path
\* Create submits is the embedded default followed by exactly one
\* ssh_authorized_keys block, whatever earlier Create calls on the record
\* did.
C21_PayloadIndependentOfEarlierCalls ==
    ( ImportPath /\ d.UserDataFile = "" ) =>
        \A i \in 1..Len(log) :
            log[i].req = "DeployVirtualMachine" =>
                /\ log[i].n = 1
                /\ cr.cloudInit = [base |-> "default", keys |-> 1]

====
